---- MODULE Spec2Model ----
(***************************************************************************)
(* Model of the OpenAI reverse proxy's key pool (key-management KeyPool)   *)
(* and of the Kobold proxy's handlers (proxy/kobold): the request rewriter *)
(* pipeline and the translation of the upstream response.                  *)
(*                                                                         *)
(* The pool is the array KeyPool.keys of Key records, built once from the  *)
(* comma-separated OPENAI_KEY setting and mutated in place by get, update, *)
(* disable, incrementPrompt and downgradeKey.  Node runs every one of      *)
(* these methods to completion on its single thread, so each method is one *)
(* action.  now is the latest value Date.now() returned; a method that     *)
(* reads the clock finds it there or one tick later.                       *)
(***************************************************************************)
EXTENDS Integers, Sequences, FiniteSets, TLC

VARIABLES
    keys,         \* KeyPool.keys: sequence of Key records, in configured order
    now,          \* the value Date.now() returned last
    ret,          \* outcome of the most recent pool method call
    disabledLog,  \* hashes logged with "Key disabled" (log.warn), in order
    lru,          \* lastUsed, at selection, of the latest key get took from the sort
    calls,        \* number of pool method calls made so far
    reqs          \* per proxied Kobold request: progress through the handlers

vars == <<keys, now, ret, disabledLog, lru, calls, reqs>>

poolVars == <<keys, now, ret, disabledLog, lru, calls>>

----------------------------------------------------------------------------
(* Bounds *)

MaxKeys == 2        \* longest configured key list

MaxTime == 1        \* Date.now() ranges over 0..MaxTime

MaxCalls == 3       \* pool method calls in one run

MaxLruCalls == 4    \* pool method calls in one run of the selection order

MaxLimit == 2       \* usage and limits reported by the checker: 0..MaxLimit

MaxReqs == 2        \* proxied requests

----------------------------------------------------------------------------
(* Configuration: OPENAI_KEY split at the commas. *)

RawEntries == {"sk-a", " sk-a ", "sk-b"}

\* String.prototype.trim on the entries above
Trim(s) == CASE s = " sk-a " -> "sk-a"
             [] OTHER -> s

\* crypto.createHash("sha256").update(k).digest("hex").slice(0, 6)
Hash(k) == CASE k = "sk-a" -> "1f3a9c"
             [] k = "sk-b" -> "7d02e5"
             [] k = ""     -> "e3b0c4"
             [] OTHER      -> "c0ffee"

NewKey(k) ==
    [ key |-> k, isGpt4 |-> FALSE, isTrial |-> FALSE, isDisabled |-> FALSE,
      softLimit |-> 0, hardLimit |-> 0, systemHardLimit |-> 0, usage |-> 0,
      lastUsed |-> 0, lastChecked |-> 0, promptCount |-> 0, hash |-> Hash(k) ]

\* keyString?.trim() is empty only for a single blank entry: a list with a
\* comma in it is never blank.
ConfigAccepted(cfg) == ~(Len(cfg) = 1 /\ Trim(cfg[1]) = "")

\* The constructor: one record per entry of the split list, in order.
Construct(cfg) == [i \in 1..Len(cfg) |-> NewKey(Trim(cfg[i]))]

\* The configured lists; the key names are interchangeable, so the first
\* entry is taken to be sk-a.
Configs ==
    {cfg \in UNION {[1..n -> RawEntries] : n \in 1..MaxKeys} :
        ConfigAccepted(cfg) /\ Trim(cfg[1]) = "sk-a"}

\* Date.now(): the clock stands where it was last read, or has moved on.
ClockReadings == {t \in {now, now + 1} : t <= MaxTime}

----------------------------------------------------------------------------
(* Requests' model names, as character sequences. *)

Gpt4Prefix == <<"g", "p", "t", "-", "4">>

Models == { <<"g", "p", "t", "-", "4">>,
            <<"g", "p", "t", "-", "4", "-", "3", "2", "k">>,
            <<"g", "p", "t", "-", "3", ".", "5">> }

\* String.prototype.startsWith
StartsWith(s, p) == Len(s) >= Len(p) /\ SubSeq(s, 1, Len(p)) = p

NeedsGpt4Key(model) == StartsWith(model, Gpt4Prefix)

----------------------------------------------------------------------------
(* Array helpers: records are named by their index into keys. *)

\* The indices of an array, in order
IndexSeq(ks) == [i \in 1..Len(ks) |-> i]

\* The first of a set of indices, 0 for none: what Array.prototype.find
\* returns among the matching elements (undefined for none)
First(matching) ==
    IF matching = {} THEN 0
    ELSE CHOOSE i \in matching : \A j \in matching : i <= j

\* this.keys.find((k) => k.hash === keyHash)
FindByHash(ks, h) == First({i \in 1..Len(ks) : ks[i].hash = h})

\* this.keys.find((k) => k.key === key.key)
FindByKey(ks, s) == First({i \in 1..Len(ks) : ks[i].key = s})

----------------------------------------------------------------------------
(* KeyPool.get *)

\* A filter that forgets the isDisabled test.
AvailableKeysIgnoringDisabled(ks, needsGpt4Key) ==
    SelectSeq(IndexSeq(ks), LAMBDA i : ~needsGpt4Key \/ ks[i].isGpt4)

\* this.keys.filter((key) => !key.isDisabled && (!needsGpt4Key || key.isGpt4))
AvailableKeys(ks, needsGpt4Key) ==
    SelectSeq(IndexSeq(ks), LAMBDA i : ~ks[i].isDisabled /\ (~needsGpt4Key \/ ks[i].isGpt4))

\* A get without the trial preference.
NoTrialKeys(ks, availableKeys) == <<>>

\* availableKeys.filter((key) => key.isTrial)
TrialKeys(ks, availableKeys) == SelectSeq(availableKeys, LAMBDA i : ks[i].isTrial)

\* An insertion that puts x in front of the elements it compares equal to.
RECURSIVE InsertBeforeEqual(_, _, _)
InsertBeforeEqual(ks, x, sorted) ==
    IF sorted = <<>> THEN <<x>>
    ELSE IF ks[x].lastUsed - ks[Head(sorted)].lastUsed <= 0
         THEN <<x>> \o sorted
         ELSE <<Head(sorted)>> \o InsertBeforeEqual(ks, x, Tail(sorted))

\* One insertion of the (stable) sort with comparator a.lastUsed - b.lastUsed:
\* x goes behind every element it does not compare smaller than.
RECURSIVE Insert(_, _, _)
Insert(ks, x, sorted) ==
    IF sorted = <<>> THEN <<x>>
    ELSE IF ks[x].lastUsed - ks[Head(sorted)].lastUsed < 0
         THEN <<x>> \o sorted
         ELSE <<Head(sorted)>> \o Insert(ks, x, Tail(sorted))

\* availableKeys.sort((a, b) => a.lastUsed - b.lastUsed)
RECURSIVE SortByLastUsed(_, _)
SortByLastUsed(ks, s) ==
    IF s = <<>> THEN <<>>
    ELSE Insert(ks, s[Len(s)], SortByLastUsed(ks, SubSeq(s, 1, Len(s) - 1)))

NoKeysMessage == "No keys available. Please add more keys."

NoGpt4KeysMessage == "No GPT-4 keys available. Please add more keys or use a non-GPT-4 model."

NoRet ==
    [ op |-> "none", ok |-> TRUE, idx |-> 0, needs |-> FALSE, path |-> "",
      sel |-> 0, msg |-> "", val |-> [kind |-> "none", num |-> 0, den |-> 1],
      out |-> <<>> ]

\* The index get picks, 0 when it throws.
Selected(ks, needsGpt4Key) ==
    LET availableKeys == AvailableKeys(ks, needsGpt4Key)
        trialKeys     == TrialKeys(ks, availableKeys)
    IN  IF availableKeys = <<>> THEN 0
        ELSE IF Len(trialKeys) > 0 THEN trialKeys[1]
        ELSE SortByLastUsed(ks, availableKeys)[1]

Get(model, t) ==
    LET needsGpt4Key  == NeedsGpt4Key(model)
        availableKeys == AvailableKeys(keys, needsGpt4Key)
        trialKeys     == TrialKeys(keys, availableKeys)
        i             == Selected(keys, needsGpt4Key)
    IN  /\ IF Len(availableKeys) = 0
           THEN /\ ret' = [NoRet EXCEPT !.op = "get", !.ok = FALSE, !.needs = needsGpt4Key,
                              !.msg = IF needsGpt4Key THEN NoGpt4KeysMessage ELSE NoKeysMessage]
                /\ UNCHANGED <<keys, lru, now>>
           ELSE /\ keys' = [keys EXCEPT ![i].lastUsed = t]
                /\ now' = t
                /\ ret' = [NoRet EXCEPT !.op = "get", !.idx = i, !.needs = needsGpt4Key,
                              !.path = IF Len(trialKeys) > 0 THEN "trial" ELSE "oldest",
                              !.sel = keys[i].lastUsed,
                              !.out = << [keys[i] EXCEPT !.lastUsed = t] >>]
                /\ lru' = IF Len(trialKeys) > 0 THEN lru
                          ELSE [any |-> keys[i].lastUsed,
                                std |-> IF needsGpt4Key THEN lru.std ELSE keys[i].lastUsed]
       /\ UNCHANGED <<disabledLog, reqs>>
       /\ calls' = calls + 1

----------------------------------------------------------------------------
(* KeyPool.update *)

UpdateFields == {"isTrial", "isGpt4", "softLimit", "hardLimit", "systemHardLimit", "usage"}

\* A KeyUpdate: every field optional; {} is an absent field, {v} the value v.
Opt(S) == {{}} \cup {{v} : v \in S}

\* A merge that takes a health report as proof that the key works again.
MergeReenabling(k, update, t) ==
    [f \in DOMAIN k |->
        IF f = "lastChecked" THEN t
        ELSE IF f = "isDisabled" THEN FALSE
        ELSE IF f \in UpdateFields /\ update[f] # {} THEN CHOOSE v \in update[f] : TRUE
        ELSE k[f]]

\* A merge that replaces the record's health fields by the report: a field
\* the report leaves out falls back to its initial value.
MergeReplacing(k, update, t) ==
    [f \in DOMAIN k |->
        IF f = "lastChecked" THEN t
        ELSE IF f \in UpdateFields
        THEN IF update[f] # {} THEN CHOOSE v \in update[f] : TRUE ELSE NewKey(k.key)[f]
        ELSE k[f]]

\* Object.assign(keyFromPool, { ...update, lastChecked: Date.now() })
Merge(k, update, t) ==
    [f \in DOMAIN k |->
        IF f = "lastChecked" THEN t
        ELSE IF f \in UpdateFields /\ update[f] # {} THEN CHOOSE v \in update[f] : TRUE
        ELSE k[f]]

TypeErrorMessage == "TypeError"

Threw(op) == [NoRet EXCEPT !.op = op, !.ok = FALSE, !.msg = TypeErrorMessage]

\* An update that falls back to the first record when no record has the hash.
UpdateFirstWhenUnknown(keyHash, update, t) ==
    LET found == FindByHash(keys, keyHash)
        i     == IF found = 0 THEN 1 ELSE found
    IN  /\ keys' = [keys EXCEPT ![i] = Merge(keys[i], update, t)]
        /\ now' = t
        /\ ret' = [NoRet EXCEPT !.op = "update"]
        /\ UNCHANGED <<disabledLog, lru, reqs>>
        /\ calls' = calls + 1

Update(keyHash, update, t) ==
    LET i == FindByHash(keys, keyHash)
    IN  /\ IF i = 0
           THEN /\ ret' = Threw("update")
                /\ UNCHANGED <<keys, now>>
           ELSE /\ keys' = [keys EXCEPT ![i] = Merge(keys[i], update, t)]
                /\ now' = t
                /\ ret' = [NoRet EXCEPT !.op = "update"]
       /\ UNCHANGED <<disabledLog, lru, reqs>>
       /\ calls' = calls + 1

----------------------------------------------------------------------------
(* KeyPool.disable, incrementPrompt, downgradeKey *)

\* A disable without the early return for a key that is disabled already.
DisableEveryTime(key) ==
    LET i == FindByKey(keys, key.key)
    IN  /\ IF i = 0
           THEN /\ ret' = Threw("disable")
                /\ UNCHANGED <<keys, disabledLog>>
           ELSE /\ keys' = [keys EXCEPT ![i].isDisabled = TRUE]
                /\ disabledLog' = Append(disabledLog, key.hash)
                /\ ret' = [NoRet EXCEPT !.op = "disable",
                              !.path = IF keys[i].isDisabled THEN "return" ELSE "disabled"]
       /\ UNCHANGED <<now, lru, reqs>>
       /\ calls' = calls + 1

\* disable(key: Key) reads key.key and key.hash of its argument.
PoolDisable(key) ==
    LET i == FindByKey(keys, key.key)
    IN  /\ IF i = 0
           THEN /\ ret' = Threw("disable")
                /\ UNCHANGED <<keys, disabledLog>>
           ELSE IF keys[i].isDisabled
           THEN /\ ret' = [NoRet EXCEPT !.op = "disable", !.path = "return"]
                /\ UNCHANGED <<keys, disabledLog>>
           ELSE /\ keys' = [keys EXCEPT ![i].isDisabled = TRUE]
                /\ disabledLog' = Append(disabledLog, key.hash)
                /\ ret' = [NoRet EXCEPT !.op = "disable", !.path = "disabled"]
       /\ UNCHANGED <<now, lru>>
       /\ calls' = calls + 1

\* disable called by the key checker: no request moves.
Disable(key) == PoolDisable(key) /\ UNCHANGED reqs

Undefined == "undefined"

\* !keyHash
Falsy(keyHash) == keyHash = Undefined \/ keyHash = ""

PoolIncrementPrompt(keyHash) ==
    LET i == FindByHash(keys, keyHash)
    IN  /\ IF Falsy(keyHash)
           THEN /\ ret' = [NoRet EXCEPT !.op = "incrementPrompt", !.path = "return"]
                /\ UNCHANGED keys
           ELSE IF i = 0
           THEN /\ ret' = Threw("incrementPrompt")
                /\ UNCHANGED keys
           ELSE /\ keys' = [keys EXCEPT ![i].promptCount = @ + 1]
                /\ ret' = [NoRet EXCEPT !.op = "incrementPrompt"]
       /\ UNCHANGED <<now, disabledLog, lru>>
       /\ calls' = calls + 1

\* incrementPrompt called on its own: no request moves.
IncrementPrompt(keyHash) == PoolIncrementPrompt(keyHash) /\ UNCHANGED reqs

DowngradeKey(keyHash) ==
    LET i == FindByHash(keys, keyHash)
    IN  /\ IF Falsy(keyHash)
           THEN /\ ret' = [NoRet EXCEPT !.op = "downgradeKey", !.path = "return"]
                /\ UNCHANGED keys
           ELSE IF i = 0
           THEN /\ ret' = Threw("downgradeKey")
                /\ UNCHANGED keys
           ELSE /\ keys' = [keys EXCEPT ![i].isGpt4 = FALSE]
                /\ ret' = [NoRet EXCEPT !.op = "downgradeKey"]
       /\ UNCHANGED <<now, disabledLog, lru, reqs>>
       /\ calls' = calls + 1

----------------------------------------------------------------------------
(* KeyPool.list, and what callers hold after list and get *)

\* this.keys.map((key) => Object.freeze({ ...key, key: undefined }))
List ==
    /\ ret' = [NoRet EXCEPT !.op = "list",
                  !.out = [i \in 1..Len(keys) |-> [keys[i] EXCEPT !.key = Undefined]]]
    /\ calls' = calls + 1
    /\ UNCHANGED <<keys, now, disabledLog, lru, reqs>>

\* The record the latest call returned is the pool's own object: get
\* returns trialKeys[0] itself, and a copy on every other path.
ReturnedFromPool == ret.op = "get" /\ ret.path = "trial"

\* Assignments a caller makes to a record it was handed.
CallerAssignments == {<<"isDisabled", TRUE>>, <<"isTrial", FALSE>>, <<"promptCount", 1>>}

\* The caller of the latest get or list assigns v to field f of the n-th
\* record it was handed.  A frozen record refuses the assignment with a
\* TypeError; an assignment to the pool's own object is one to the pool.
CallerWrites(n, f, v) ==
    /\ ret.op \in {"get", "list"} /\ ret.ok
    /\ n \in DOMAIN ret.out
    /\ IF ret.op = "list"
       THEN /\ ret' = [ret EXCEPT !.msg = TypeErrorMessage]
            /\ UNCHANGED keys
       ELSE /\ ret' = [ret EXCEPT !.out[n][f] = v]
            /\ IF ReturnedFromPool
               THEN keys' = [keys EXCEPT ![ret.idx][f] = v]
               ELSE UNCHANGED keys
    /\ calls' = calls + 1
    /\ UNCHANGED <<now, disabledLog, lru, reqs>>

----------------------------------------------------------------------------
(* KeyPool.calculateRemainingQuota *)

\* JavaScript numbers the computation can produce: a fraction num/den with
\* den > 0, or one of the values a division by zero gives.
Finite(n, d) == [kind |-> "finite", num |-> n, den |-> d]

NaN == [kind |-> "NaN", num |-> 0, den |-> 1]

Infinite(sign) == [kind |-> "Infinity", num |-> sign, den |-> 1]

\* Math.min
Min(a, b) == IF a < b THEN a ELSE b

\* a / b on numbers
Divide(a, b) ==
    IF b = 0
    THEN IF a = 0 THEN NaN ELSE Infinite(IF a > 0 THEN 1 ELSE -1)
    ELSE IF b > 0 THEN Finite(a, b) ELSE Finite(-a, -b)

\* 1 - x
OneMinus(x) ==
    CASE x.kind = "NaN"      -> NaN
      [] x.kind = "Infinity" -> Infinite(-x.num)
      [] OTHER               -> Finite(x.den - x.num, x.den)

\* gpt4Only ? this.keys.filter((k) => k.isGpt4) : this.keys
QuotaKeys(ks, gpt4Only) ==
    SelectSeq(IndexSeq(ks), LAMBDA i : ~gpt4Only \/ ks[i].isGpt4)

\* A usage sum that does not cap a key's usage at its hardLimit.
RECURSIVE TotalUsageUncapped(_, _)
TotalUsageUncapped(ks, s) ==
    IF s = <<>> THEN 0
    ELSE TotalUsageUncapped(ks, SubSeq(s, 1, Len(s) - 1)) + ks[s[Len(s)]].usage

\* keys.reduce((acc, key) => acc + Math.min(key.usage, key.hardLimit), 0)
RECURSIVE TotalUsage(_, _)
TotalUsage(ks, s) ==
    IF s = <<>> THEN 0
    ELSE TotalUsage(ks, SubSeq(s, 1, Len(s) - 1))
         + Min(ks[s[Len(s)]].usage, ks[s[Len(s)]].hardLimit)

\* keys.reduce((acc, { hardLimit }) => acc + hardLimit, 0)
RECURSIVE TotalLimit(_, _)
TotalLimit(ks, s) ==
    IF s = <<>> THEN 0
    ELSE TotalLimit(ks, SubSeq(s, 1, Len(s) - 1)) + ks[s[Len(s)]].hardLimit

RemainingQuota(ks, gpt4Only) ==
    LET s == QuotaKeys(ks, gpt4Only)
    IN  IF Len(s) = 0 THEN Finite(0, 1)
        ELSE OneMinus(Divide(TotalUsage(ks, s), TotalLimit(ks, s)))

CalculateRemainingQuota(gpt4Only) ==
    /\ ret' = [NoRet EXCEPT !.op = "calculateRemainingQuota", !.needs = gpt4Only,
                            !.val = RemainingQuota(keys, gpt4Only)]
    /\ calls' = calls + 1
    /\ UNCHANGED <<keys, now, disabledLog, lru, reqs>>

----------------------------------------------------------------------------
(* The pool under the calls of the request handlers and of the key checker. *)

\* req.key while no key was injected.
NoKey == [key |-> Undefined, hash |-> Undefined]

\* A text no JSON.parse accepts, and no bytes at all.
NotJson == [json |-> FALSE, doc |-> [choices |-> {}, model |-> {}]]

NoBytes == [coding |-> "none", text |-> NotJson]

\* The client response: nothing sent yet.
NoRes == [sent |-> FALSE, status |-> 0, encoding |-> Undefined, body |-> NoBytes]

\* A proxied request before http-proxy hands it to the handlers.
NewRequest ==
    [ status |-> "new", invoked |-> <<>>, completed |-> <<>>, error |-> "none",
      key |-> NoKey, statusCode |-> 0, contentEncoding |-> Undefined,
      counted |-> FALSE, upstream |-> NotJson, parsed |-> {}, rejection |-> "none",
      res |-> NoRes ]

Init ==
    /\ keys \in {Construct(cfg) : cfg \in Configs}
    /\ now = 0
    /\ ret = NoRet
    /\ disabledLog = <<>>
    /\ lru = [any |-> -1, std |-> -1]
    /\ calls = 0
    /\ reqs = [r \in 1..MaxReqs |-> NewRequest]

\* Hashes and keys callers pass: those of the keys that can be configured,
\* whether the pool at hand holds them or not.
KnownKeys == {Trim(e) : e \in RawEntries}

HashArgs == {Hash(k) : k \in KnownKeys}

KeyArgs == {[key |-> k, hash |-> Hash(k)] : k \in KnownKeys}

\* What the key checker learns about capabilities.
FlagUpdates ==
    [ isTrial : Opt(BOOLEAN), isGpt4 : Opt(BOOLEAN), softLimit : {{}},
      hardLimit : {{}}, systemHardLimit : {{}}, usage : {{}} ]

\* A run makes a bounded number of calls.
Within(budget) == calls < budget

Next ==
    \/ \E model \in Models, t \in ClockReadings : Within(MaxCalls) /\ Get(model, t)
    \/ \E h \in HashArgs, u \in FlagUpdates, t \in ClockReadings :
          Within(MaxCalls) /\ Update(h, u, t)
    \/ \E k \in KeyArgs : Within(MaxCalls) /\ Disable(k)
    \/ \E h \in HashArgs \cup {Undefined} : Within(MaxCalls) /\ IncrementPrompt(h)
    \/ \E h \in HashArgs \cup {Undefined} : Within(MaxCalls) /\ DowngradeKey(h)

Spec == Init /\ [][Next]_vars

\* The calls that decide which key get takes: get itself and the writers of
\* the flags it filters by.
NextLru ==
    \/ \E model \in Models, t \in ClockReadings : Within(MaxLruCalls) /\ Get(model, t)
    \/ \E h \in HashArgs, u \in FlagUpdates, t \in ClockReadings :
          Within(MaxLruCalls) /\ Update(h, u, t)
    \/ \E k \in KeyArgs : Within(MaxLruCalls) /\ Disable(k)
    \/ \E h \in HashArgs \cup {Undefined} : Within(MaxLruCalls) /\ DowngradeKey(h)

SpecLru == Init /\ [][NextLru]_vars

\* What the key checker reports after a probe: a flag, a limit, both or
\* neither.
ProbeUpdates ==
    [ isTrial : Opt({TRUE}), isGpt4 : {{}}, softLimit : {{}},
      hardLimit : Opt({MaxLimit}), systemHardLimit : {{}}, usage : {{}} ]

\* The key checker at work: it reports on keys, disables the revoked ones and
\* downgrades those without GPT-4.
NextChecker ==
    \/ \E h \in HashArgs, u \in ProbeUpdates, t \in ClockReadings :
          Within(MaxCalls) /\ Update(h, u, t)
    \/ \E k \in KeyArgs : Within(MaxCalls) /\ Disable(k)
    \/ \E h \in HashArgs \cup {Undefined} : Within(MaxCalls) /\ DowngradeKey(h)

SpecChecker == Init /\ [][NextChecker]_vars

\* Callers that keep and write to what get and list handed them, next to
\* the checker's reports that make trial keys.
NextHandout ==
    \/ \E model \in Models, t \in ClockReadings : Within(MaxCalls) /\ Get(model, t)
    \/ \E h \in HashArgs, u \in FlagUpdates : Within(MaxCalls) /\ Update(h, u, now)
    \/ Within(MaxCalls) /\ List
    \/ \E n \in 1..MaxKeys, a \in CallerAssignments :
          Within(MaxCalls) /\ CallerWrites(n, a[1], a[2])

SpecHandout == Init /\ [][NextHandout]_vars

\* What the key checker learns about usage and limits.
QuotaUpdates ==
    [ isTrial : {{}}, isGpt4 : Opt(BOOLEAN), softLimit : {{}},
      hardLimit : Opt(0..MaxLimit), systemHardLimit : {{}}, usage : Opt(0..MaxLimit) ]

\* The quota reads neither the clock nor lastChecked: the updates come in
\* without the clock moving.
NextQuota ==
    \/ \E h \in HashArgs, u \in QuotaUpdates : Within(MaxCalls) /\ Update(h, u, now)
    \/ \E h \in HashArgs \cup {Undefined} : Within(MaxCalls) /\ DowngradeKey(h)
    \/ \E gpt4Only \in BOOLEAN : Within(MaxCalls) /\ CalculateRemainingQuota(gpt4Only)

SpecQuota == Init /\ [][NextQuota]_vars

----------------------------------------------------------------------------
(* rewriteRequest: the proxyReq handler of the Kobold proxy.  The handler   *)
(* is synchronous, so no second request enters it while one is inside.     *)

\* A pipeline that finalizes the body before the output limit is applied.
PipelineFinalizingEarly ==
    << "addKey", "transformKoboldPayload", "languageFilter", "disableStream",
       "finalizeBody", "limitOutputTokens" >>

rewriterPipeline ==
    << "addKey", "transformKoboldPayload", "languageFilter", "disableStream",
       "limitOutputTokens", "finalizeBody" >>

Rewriting(r) == reqs[r].status = "rewriting"

\* http-proxy emits proxyReq for a request: rewriteRequest is entered.
RewriteRequest(r) ==
    /\ reqs[r].status = "new"
    /\ \A q \in DOMAIN reqs : ~Rewriting(q)
    /\ reqs' = [reqs EXCEPT ![r].status = "rewriting"]
    /\ UNCHANGED poolVars

\* The rewriter the for loop calls next.
NextRewriter(r) == rewriterPipeline[Len(reqs[r].completed) + 1]

\* One iteration of the for loop whose rewriter returns; after the last one
\* the handler returns with the request intact.
RewriterReturns(r) ==
    /\ Rewriting(r)
    /\ reqs' = [reqs EXCEPT
                  ![r].invoked = Append(@, NextRewriter(r)),
                  ![r].completed = Append(@, NextRewriter(r)),
                  ![r].status = IF Len(reqs[r].completed) + 1 = Len(rewriterPipeline)
                                THEN "rewritten" ELSE "rewriting"]
    /\ UNCHANGED poolVars

\* A handler whose catch block logs the error and lets the request go.
RewriterThrowsUndestroyed(r) ==
    /\ Rewriting(r)
    /\ reqs' = [reqs EXCEPT
                  ![r].invoked = Append(@, NextRewriter(r)),
                  ![r].error = NextRewriter(r),
                  ![r].status = "rewritten"]
    /\ UNCHANGED poolVars

\* One iteration whose rewriter throws: the catch block logs the error and
\* calls proxyReq.destroy(error).
RewriterThrows(r) ==
    /\ Rewriting(r)
    /\ reqs' = [reqs EXCEPT
                  ![r].invoked = Append(@, NextRewriter(r)),
                  ![r].error = NextRewriter(r),
                  ![r].status = "destroyed"]
    /\ UNCHANGED poolVars

\* The proxy sends an intact outbound request upstream.
SendUpstream(r) ==
    /\ reqs[r].status = "rewritten"
    /\ reqs' = [reqs EXCEPT ![r].status = "sent"]
    /\ UNCHANGED poolVars

NextPipe ==
    \/ \E r \in DOMAIN reqs : RewriteRequest(r)
    \/ \E r \in DOMAIN reqs : RewriterReturns(r)
    \/ \E r \in DOMAIN reqs : RewriterThrows(r)
    \/ \E r \in DOMAIN reqs : SendUpstream(r)

SpecPipe == Init /\ [][NextPipe]_vars

----------------------------------------------------------------------------
(* handleProxiedResponse: the proxyRes handler of the Kobold proxy.  It is  *)
(* an async function: it runs up to its await, and the rest of it and the  *)
(* "end" listener it registers run later, each in one piece.               *)

\* Upstream status codes: success, rejected credentials, a server error.
StatusCodes == {200, 401, 500}

\* The statuses of a rejected or exhausted credential.
KeyFailureStatuses == {401, 429}

\* Values of proxyRes.headers["content-encoding"]; Undefined when absent.
ContentEncodings == {Undefined, "identity", "gzip", "deflate", "br"}

\* The coding a body under that header is in.
Coding(contentEncoding) ==
    CASE contentEncoding = "gzip"    -> "gzip"
      [] contentEncoding = "deflate" -> "deflate"
      [] contentEncoding = "br"      -> "br"
      [] OTHER                       -> "none"

\* Bodies the provider sends with a success status, as JSON documents with
\* every property optional: a completion, a message without content, a
\* choice without message, an empty choices list, no choices at all.
Completion ==
    [choices |-> {<< [message |-> {[content |-> {"hello"}]}] >>}, model |-> {"gpt-x"}]

UpstreamDocs ==
    { Completion,
      [Completion EXCEPT !.choices = {<< [message |-> {[content |-> {}]}] >>}],
      [Completion EXCEPT !.choices = {<< [message |-> {}] >>}],
      [Completion EXCEPT !.choices = {<<>>}],
      [Completion EXCEPT !.choices = {}] }

\* JSON.stringify: the text of a document.
JsonText(doc) == [json |-> TRUE, doc |-> doc]

UpstreamTexts == {JsonText(d) : d \in UpstreamDocs} \cup {NotJson}

\* Bytes: a text under a coding.  zlib.gzip and zlib.deflate
Compress(coding, text) == [coding |-> coding, text |-> text]

\* zlib.gunzip and zlib.inflate: the bytes of the text, or an error for bytes
\* that are not in that coding.
Decompress(coding, bytes) ==
    IF bytes.coding = coding
    THEN [ok |-> TRUE, bytes |-> Compress("none", bytes.text)]
    ELSE [ok |-> FALSE, bytes |-> bytes]

\* JSON.parse(body.toString()) throws a SyntaxError unless the bytes are
\* those of a JSON text.
Parses(bytes) == bytes.coding = "none" /\ bytes.text.json

\* response.choices[0].message.content throws a TypeError when choices,
\* choices[0] or message is undefined.
HasMessage(doc) ==
    /\ doc.choices # {}
    /\ \A cs \in doc.choices : Len(cs) > 0 /\ cs[1].message # {}

\* { results: [{ text: response.choices[0].message.content }], model: response.model }
KoboldResponse(doc) ==
    LET cs == CHOOSE c \in doc.choices : TRUE
        message == CHOOSE m \in cs[1].message : TRUE
    IN  [results |-> << [text |-> message.content] >>, model |-> doc.model]

\* The keys requests can carry: those of the pool, or none.
RequestKeys == {[key |-> keys[i].key, hash |-> keys[i].hash] : i \in 1..Len(keys)} \cup {NoKey}

\* http-proxy emits proxyRes: handleProxiedResponse runs up to the await of
\* handleDownstreamErrors.
HandleProxiedResponse(r, statusCode, key) ==
    /\ reqs[r].status = "sent"
    /\ reqs' = [reqs EXCEPT ![r].status = "downstream", ![r].key = key,
                            ![r].statusCode = statusCode]
    /\ UNCHANGED poolVars

\* handleDownstreamErrors settles.  For a failure status it has answered the
\* client and, for a credential failure, disabled the key; the handler returns.
DownstreamErrorHandled(r) ==
    /\ reqs[r].status = "downstream"
    /\ reqs[r].statusCode # 200
    /\ reqs' = [reqs EXCEPT ![r].status = "failed",
                  ![r].res = [NoRes EXCEPT !.sent = TRUE, !.status = reqs[r].statusCode]]
    /\ IF reqs[r].statusCode \in KeyFailureStatuses /\ reqs[r].key # NoKey
       THEN PoolDisable(reqs[r].key)
       ELSE UNCHANGED poolVars

\* incrementKeyUsage(req)
IncrementKeyUsage(r) == PoolIncrementPrompt(reqs[r].key.hash)

\* For a success status the handler goes on: incrementKeyUsage,
\* copyHttpHeaders, and the listeners for the body.
ResponseAccepted(r) ==
    /\ reqs[r].status = "downstream"
    /\ reqs[r].statusCode = 200
    /\ IncrementKeyUsage(r)
    /\ reqs' = [reqs EXCEPT ![r].status = IF ret'.ok THEN "buffering" ELSE "rejected",
                            ![r].counted = ret'.ok /\ ret'.path # "return",
                            ![r].rejection = IF ret'.ok THEN "none" ELSE TypeErrorMessage]

\* What the "end" listener does with the body: the error it throws, if any,
\* the bytes it hands to JSON.parse, and what it sends.
Translation(contentEncoding, body) ==
    LET decoded == IF contentEncoding = "gzip" THEN Decompress("gzip", body)
                   ELSE IF contentEncoding = "deflate" THEN Decompress("deflate", body)
                   ELSE [ok |-> TRUE, bytes |-> body]
        sendCoding == IF contentEncoding = "gzip" THEN "gzip"
                      ELSE IF contentEncoding = "deflate" THEN "deflate"
                      ELSE "none"
    IN  IF ~decoded.ok
        THEN [rejection |-> "ZlibError", parsed |-> {}, res |-> NoRes]
        ELSE IF ~Parses(decoded.bytes)
        THEN [rejection |-> "SyntaxError", parsed |-> {decoded.bytes.coding}, res |-> NoRes]
        ELSE IF ~HasMessage(decoded.bytes.text.doc)
        THEN [rejection |-> TypeErrorMessage, parsed |-> {decoded.bytes.coding}, res |-> NoRes]
        ELSE [rejection |-> "none", parsed |-> {decoded.bytes.coding},
              res |-> [sent |-> TRUE, status |-> 200,
                       encoding |-> IF sendCoding = "none" THEN Undefined ELSE sendCoding,
                       body |-> Compress(sendCoding,
                                   JsonText(KoboldResponse(decoded.bytes.text.doc)))]]

\* The "end" listener: the whole body is in and carries the upstream's
\* Content-Encoding.  An error thrown in the listener rejects the promise
\* of the async function, which nobody handles: nothing is sent.
ProxyResEnd(r, contentEncoding, text) ==
    LET t == Translation(contentEncoding, Compress(Coding(contentEncoding), text))
    IN  /\ reqs[r].status = "buffering"
        /\ reqs' = [reqs EXCEPT
                      ![r].status = IF t.rejection = "none" THEN "responded" ELSE "rejected",
                      ![r].contentEncoding = contentEncoding,
                      ![r].upstream = text,
                      ![r].parsed = t.parsed,
                      ![r].rejection = t.rejection,
                      ![r].res = t.res]
        /\ UNCHANGED poolVars

\* Proxied calls from the rewriters to the client response.
NextResp ==
    \/ NextPipe
    \/ \E r \in DOMAIN reqs, c \in StatusCodes, k \in RequestKeys :
          HandleProxiedResponse(r, c, k)
    \/ \E r \in DOMAIN reqs : DownstreamErrorHandled(r)
    \/ \E r \in DOMAIN reqs : ResponseAccepted(r)
    \/ \E r \in DOMAIN reqs, e \in ContentEncodings, text \in UpstreamTexts :
          ProxyResEnd(r, e, text)

SpecResp == Init /\ [][NextResp]_vars

\* What the key checker reports about a key it probed.
CheckerReports == {u \in FlagUpdates : u.isTrial = {} /\ u.isGpt4 # {}}

\* The proxied calls in flight next to the key checker, which reports on
\* keys and disables them from its own timer.  The bodies are plain: one
\* that translates and one that does not.
NextConcurrent ==
    \/ NextPipe
    \/ \E r \in DOMAIN reqs, c \in StatusCodes, k \in RequestKeys :
          HandleProxiedResponse(r, c, k)
    \/ \E r \in DOMAIN reqs : DownstreamErrorHandled(r)
    \/ \E r \in DOMAIN reqs : ResponseAccepted(r)
    \/ \E r \in DOMAIN reqs, text \in {JsonText(Completion), NotJson} :
          ProxyResEnd(r, Undefined, text)
    \/ \E h \in HashArgs, u \in CheckerReports : Within(MaxCalls) /\ Update(h, u, now)
    \/ \E k \in KeyArgs : Within(MaxCalls) /\ Disable(k)

SpecConcurrent == Init /\ [][NextConcurrent]_vars

TypeOK ==
    /\ Len(keys) \in 1..MaxKeys
    /\ calls \in 0..(MaxLruCalls + MaxReqs)
    /\ now \in 0..MaxTime
    /\ \A i \in 1..Len(keys) : keys[i].lastUsed \in 0..now /\ keys[i].lastChecked \in 0..now

----------------------------------------------------------------------------
(* Properties of the key pool *)

Indices == 1..Len(keys)

GetReturned == ret.op = "get" /\ ret.ok

\* get leaves every flag as it found it, so the flags in the state after a
\* get are the flags the call saw.
DisableApplied(k) == \E j \in Indices : keys[j].key = k /\ keys[j].isDisabled

\* C1: a successful get(model) returns a key that is not disabled and, for a
\* model starting with "gpt-4", has isGpt4; and no get returns a key that
\* disable has been applied to (disable is the only writer of isDisabled, so
\* it has been applied to k exactly when a record with key k is disabled).
C1_GetReturnsNoDisabledKey ==
    GetReturned =>
        /\ ~keys[ret.idx].isDisabled
        /\ ret.needs => keys[ret.idx].isGpt4
        /\ ~DisableApplied(keys[ret.idx].key)

\* C2: isDisabled never goes back from true to false, and it goes from false
\* to true only in a step of disable that took the disabling branch for
\* that record.
C2_DisabledIsOneWay ==
    [][\A i \in Indices :
          /\ keys[i].isDisabled => keys'[i].isDisabled
          /\ (~keys[i].isDisabled /\ keys'[i].isDisabled) =>
                /\ ret'.op = "disable" /\ ret'.path = "disabled"
                /\ disabledLog' = Append(disabledLog, keys[i].hash)
                /\ \A j \in Indices \ {i} : keys'[j] = keys[j]]_vars

\* A health update has reported GPT-4 access for a key that was disabled
\* before (every key of the pool was).
C2_Witness ==
    /\ ret.op = "update" /\ ret.ok
    /\ \A i \in Indices : keys[i].isDisabled
    /\ \E i \in Indices : keys[i].isGpt4 /\ keys[i].lastChecked > 0

AllDisabled == \A i \in Indices : keys[i].isDisabled

OnlyStandardKeysRemain ==
    /\ \E i \in Indices : keys[i].isGpt4
    /\ \A i \in Indices : keys[i].isGpt4 => keys[i].isDisabled
    /\ \E i \in Indices : ~keys[i].isDisabled /\ ~keys[i].isGpt4

\* C3: with every key disabled get throws its no-key error, whatever the
\* model; with every GPT-4 key disabled and an enabled non-GPT-4 key left,
\* get for a model that does not start with "gpt-4" succeeds.
C3_SelectionExhaustion ==
    ret.op = "get" =>
        /\ AllDisabled =>
              (~ret.ok /\ ret.msg = IF ret.needs THEN NoGpt4KeysMessage ELSE NoKeysMessage)
        /\ (OnlyStandardKeysRemain /\ ~ret.needs) =>
              (ret.ok /\ ~keys[ret.idx].isDisabled /\ ~keys[ret.idx].isGpt4)

\* A non-GPT-4 request was served while every GPT-4 key was disabled.
C3_Witness == GetReturned /\ ~ret.needs /\ OnlyStandardKeysRemain

\* The only trial key of the pool, when it is enabled: its index, else 0.
OnlyTrialKey ==
    IF \E t \in Indices : /\ keys[t].isTrial /\ ~keys[t].isDisabled
                          /\ \A j \in Indices \ {t} : ~keys[j].isTrial
    THEN CHOOSE t \in Indices : keys[t].isTrial
    ELSE 0

\* C4: while the pool's one trial key is enabled, every get for a model
\* without the GPT-4 requirement returns that trial key, whatever the
\* lastUsed values and however many calls were made.
C4_TrialPreference ==
    (ret.op = "get" /\ ~ret.needs /\ OnlyTrialKey # 0) =>
        (ret.ok /\ ret.idx = OnlyTrialKey /\ ret.path = "trial")

\* The trial key was returned again although an enabled non-trial key had
\* been used less recently; every key is enabled.
C4_Witness ==
    /\ GetReturned /\ ~ret.needs /\ OnlyTrialKey # 0
    /\ ret.sel > 0
    /\ \A i \in Indices : ~keys[i].isDisabled
    /\ \E j \in Indices : ~keys[j].isTrial /\ keys[j].lastUsed < ret.sel

\* The key get took from the sort was, among the keys available to the
\* call, the one with the smallest lastUsed and, among equals, the first in
\* configured order.  (ret.sel is its lastUsed at selection; the call
\* overwrote only that field.)
LruPicksOldest ==
    (GetReturned /\ ret.path = "oldest") =>
        \A j \in Indices \ {ret.idx} :
            (~keys[j].isDisabled /\ (ret.needs => keys[j].isGpt4)) =>
                /\ ~keys[j].isTrial
                /\ keys[j].lastUsed >= ret.sel
                /\ j < ret.idx => keys[j].lastUsed > ret.sel

\* C5 as claimed: get takes the oldest available key, ties to the earliest
\* configured one, and the lastUsed at selection never decreases from one
\* get that sorted to the next.
C5_LruOrderOverAllCalls ==
    [][LruPicksOldest' /\ lru'.any >= lru.any]_vars

\* C5 amended: get takes the oldest available key, ties to the earliest
\* configured one, and the lastUsed at selection never decreases from one
\* get for a model without the GPT-4 requirement to the next such get.
C5_LruOrder ==
    [][LruPicksOldest' /\ lru'.std >= lru.std]_vars

\* A later non-GPT-4 get took the earlier of two equally old keys, both
\* used before.
C5_Witness ==
    /\ GetReturned /\ ret.path = "oldest" /\ ~ret.needs
    /\ ret.sel > 0
    /\ \E j \in Indices : j > ret.idx /\ ~keys[j].isDisabled /\ keys[j].lastUsed = ret.sel

Count(s, x) == Cardinality({n \in DOMAIN s : s[n] = x})

\* "Key disabled" is in the log once for every key that is disabled, and
\* not at all for the others.
LoggedOncePerDisabledKey ==
    /\ \A i \in Indices :
          Count(disabledLog, keys[i].hash) = IF DisableApplied(keys[i].key) THEN 1 ELSE 0
    /\ Len(disabledLog) = Cardinality({i \in Indices : keys[i].isDisabled})

\* C6: however often disable is called for a key, its record goes from
\* enabled to disabled once and "Key disabled" is logged once; a call that
\* finds the record disabled changes neither the keys nor the log.
C6_DisableIdempotent ==
    [][/\ LoggedOncePerDisabledKey'
       /\ (ret'.op = "disable" /\ ret'.path = "return") =>
             (keys' = keys /\ disabledLog' = disabledLog /\ now' = now /\ lru' = lru)
       /\ (ret'.op = "disable" /\ ret'.path = "disabled") =>
             Len(disabledLog') = Len(disabledLog) + 1]_vars

\* disable was called on a key that was disabled already.
C6_Witness ==
    /\ ret.op = "disable" /\ ret.path = "return"
    /\ Len(disabledLog) = 1

QuotaReturned == ret.op = "calculateRemainingQuota"

\* calculateRemainingQuota writes nothing, so the state after the call holds
\* the keys it summed.
QuotaSet == QuotaKeys(keys, ret.needs)

IsZero(x) == x.kind = "finite" /\ x.num = 0

\* C7: calculateRemainingQuota returns 0 for an empty filtered key set and
\* for a hardLimit sum of zero, and never NaN or an infinity.
C7_QuotaZeroWithoutLimit ==
    QuotaReturned =>
        /\ ret.val.kind = "finite"
        /\ (Len(QuotaSet) = 0 \/ TotalLimit(keys, QuotaSet) = 0) => IsZero(ret.val)

\* C8: over a non-empty filtered key set with a positive hardLimit sum the
\* result lies in [0, 1]: 0 <= sum of min(usage, hardLimit) <= sum of hardLimit.
C8_QuotaInUnitInterval ==
    (QuotaReturned /\ Len(QuotaSet) > 0 /\ TotalLimit(keys, QuotaSet) > 0) =>
        /\ ret.val.kind = "finite"
        /\ 0 <= ret.val.num /\ ret.val.num <= ret.val.den
        /\ 0 <= TotalUsage(keys, QuotaSet)
        /\ TotalUsage(keys, QuotaSet) <= TotalLimit(keys, QuotaSet)

\* The quota was computed over keys of which one has used more than its
\* hardLimit.
C8_Witness ==
    /\ QuotaReturned /\ TotalLimit(keys, QuotaSet) > 0
    /\ \E n \in DOMAIN QuotaSet : keys[QuotaSet[n]].usage > keys[QuotaSet[n]].hardLimit

----------------------------------------------------------------------------
(* Properties of rewriteRequest *)

Requests == DOMAIN reqs

ExpectedOrder ==
    << "addKey", "transformKoboldPayload", "languageFilter", "disableStream",
       "limitOutputTokens", "finalizeBody" >>

IsPrefix(s, t) == Len(s) <= Len(t) /\ SubSeq(t, 1, Len(s)) = s

InSeq(x, s) == \E n \in DOMAIN s : s[n] = x

\* C9: once a rewriter has thrown, the rewriters after it are never called,
\* finalizeBody has not done its work, and the outbound request is destroyed
\* with the error and is never sent upstream.
C9_PipelineAbort ==
    \A r \in Requests :
        reqs[r].error # "none" =>
            /\ reqs[r].status = "destroyed"
            /\ IsPrefix(reqs[r].invoked, ExpectedOrder)
            /\ reqs[r].invoked = Append(reqs[r].completed, reqs[r].error)
            /\ ~InSeq("finalizeBody", reqs[r].completed)

\* languageFilter rejected a request after addKey and transformKoboldPayload
\* had run.
C9_Witness ==
    \E r \in Requests :
        /\ reqs[r].error = "languageFilter"
        /\ reqs[r].completed = <<"addKey", "transformKoboldPayload">>

\* C10: the rewriters are called in the fixed order, each once and only
\* after the earlier ones have returned; a request that leaves the handler
\* intact has passed all six, finalizeBody last and once.
C10_PipelineOrder ==
    \A r \in Requests :
        /\ IsPrefix(reqs[r].invoked, ExpectedOrder)
        /\ IsPrefix(reqs[r].completed, reqs[r].invoked)
        /\ Len(reqs[r].invoked) - Len(reqs[r].completed) <= 1
        /\ reqs[r].status \in {"rewritten", "sent"} =>
              (reqs[r].completed = ExpectedOrder /\ reqs[r].error = "none")
        /\ reqs[r].status = "new" => reqs[r].invoked = <<>>
        /\ (reqs[r].status = "rewriting" \/ reqs[r].error # "none") =>
              Len(reqs[r].completed) < Len(ExpectedOrder)

\* A request was sent upstream after all six rewriters.
C10_Witness ==
    \E r \in Requests :
        /\ reqs[r].status = "sent"
        /\ reqs[r].completed[Len(reqs[r].completed)] = "finalizeBody"
        /\ Count(reqs[r].completed, "finalizeBody") = 1

\* The identities the pool holds: key and hash of every record, in order.
Identities(ks) == [i \in 1..Len(ks) |-> <<ks[i].key, ks[i].hash>>]

UniqueHashes(ks) ==
    \A i, j \in 1..Len(ks) : i # j => ks[i].hash # ks[j].hash

\* C14: the pool holds one record per distinct trimmed entry of the
\* configured list, so no two records have the same hash, and no pool
\* operation changes the set of records or the key and hash of any of them.
C14_HashIdentifiesRecord ==
    [][UniqueHashes(keys) /\ UniqueHashes(keys') /\ Identities(keys') = Identities(keys)]_vars

\* C15: update with a hash that no record has leaves every record as it
\* was: the call throws (or does nothing), and modifies no other record.
C15_UpdateUnknownHash ==
    [][\A h \in HashArgs, u \in FlagUpdates, t \in ClockReadings :
          (ret'.op = "update" /\ FindByHash(keys, h) = 0 /\ Update(h, u, t)) =>
              (keys' = keys /\ ret'.op = "update" /\ (ret'.ok \/ ret'.msg # ""))]_vars

\* update threw for a hash the pool does not hold.
C15_Witness ==
    /\ ret.op = "update" /\ ~ret.ok /\ ret.msg = TypeErrorMessage
    /\ \E h \in HashArgs : FindByHash(keys, h) = 0

\* C16: incrementPrompt raises the promptCount of the key with the hash by
\* exactly 1; without a hash, or with a hash that no key of the pool has, it
\* returns without an error and changes nothing; no operation ever lowers a
\* promptCount.
C16_IncrementPrompt ==
    [][/\ \A h \in HashArgs \cup {Undefined} :
             IncrementPrompt(h) =>
                 IF h # Undefined /\ FindByHash(keys, h) # 0
                 THEN keys' = [keys EXCEPT ![FindByHash(keys, h)].promptCount = @ + 1]
                 ELSE keys' = keys /\ ret'.ok
       /\ \A i \in Indices : keys'[i].promptCount >= keys[i].promptCount]_vars

\* Some enabled key lacks GPT-4, and no enabled key has it.
NoEnabledGpt4Key ==
    /\ \E i \in Indices : ~keys[i].isDisabled
    /\ \A i \in Indices : ~keys[i].isDisabled => ~keys[i].isGpt4

\* C17: when get fails its message tells the cause: the generic message
\* when no enabled key exists at all, the GPT-4 message when enabled keys
\* exist but none of them has isGpt4 and the model starts with "gpt-4".
C17_MessageTellsCause ==
    (ret.op = "get" /\ ~ret.ok) =>
        /\ (ret.msg = NoKeysMessage) <=> AllDisabled
        /\ (ret.msg = NoGpt4KeysMessage) <=> (ret.needs /\ NoEnabledGpt4Key)

\* What update is to leave of record k: every field but lastChecked and the
\* fields the partial update carries.
Kept(k, update) ==
    [f \in DOMAIN k \ ({"lastChecked"} \cup {g \in UpdateFields : update[g] # {}}) |-> k[f]]

\* C18: update on a known hash changes one record with that hash and no
\* other; in it, the fields the partial update carries take the values
\* given, lastChecked becomes the current time, and every other field (key,
\* hash, isDisabled, lastUsed, promptCount among them) stays as it was.
C18_UpdateFrame ==
    [][\A h \in HashArgs, u \in ProbeUpdates :
          (ret'.op = "update" /\ FindByHash(keys, h) # 0 /\ Update(h, u, now')) =>
              LET i == FindByHash(keys, h)
              IN  /\ Len(keys') = Len(keys)
                  /\ \A j \in Indices \ {i} : keys'[j] = keys[j]
                  /\ keys'[i].lastChecked = now'
                  /\ \A f \in UpdateFields : u[f] # {} => keys'[i][f] \in u[f]
                  /\ Kept(keys'[i], u) = Kept(keys[i], u)]_vars

\* An update has reported on one of two records that held a flag and a limit
\* from earlier reports, and has stamped it.
C18_Witness ==
    /\ ret.op = "update" /\ ret.ok /\ Len(keys) > 1
    /\ \E i \in Indices :
          /\ keys[i].isTrial /\ keys[i].hardLimit > 0
          /\ keys[i].lastChecked = now /\ now > 0

\* C20: what the pool hands out is detached from it: an assignment to a
\* field of a record that get returned, on the trial path or on the
\* least-recently-used path, or that list returned, changes no record of the
\* pool; and list returns every record with key undefined.
C20_HandedOutRecordsDetached ==
    [][/\ \A n \in 1..MaxKeys, a \in CallerAssignments :
             CallerWrites(n, a[1], a[2]) => keys' = keys
       /\ ret'.op = "list" =>
             (Len(ret'.out) = Len(keys) /\ \A n \in DOMAIN ret'.out : ret'.out[n].key = Undefined)]_vars

----------------------------------------------------------------------------
(* Properties of the response stage *)

\* The stage has ended for the call: the listener has sent or has thrown.
StageEnded(r) == reqs[r].status \in {"responded", "rejected"}

\* No call is between the upstream's answer and the end of its handling.
NoCallInStage == \A r \in Requests : reqs[r].status \notin {"downstream", "buffering"}

SupportedEncoding(contentEncoding) ==
    contentEncoding \in {Undefined, "identity", "gzip", "deflate"}

\* The body is JSON and carries choices[0].message.content.
HasCompletion(text) ==
    /\ text.json
    /\ \E cs \in text.doc.choices :
          Len(cs) > 0 /\ \E m \in cs[1].message : m.content # {}

\* The call was answered with a body the stage can decode, parse and translate.
Translatable(r) ==
    /\ StageEnded(r)
    /\ SupportedEncoding(reqs[r].contentEncoding)
    /\ HasCompletion(reqs[r].upstream)

\* C11: usage is accounted only for calls whose upstream body was decoded,
\* parsed and translated: once every call in the response stage has ended,
\* the promptCount of the key with a given hash is the number of calls that
\* carried it and were translated; a call with unparseable JSON, without
\* choices or with an encoding the stage cannot handle adds nothing.
C11_UsageCountedOnSuccessOnly ==
    NoCallInStage =>
        \A h \in {keys[i].hash : i \in Indices} :
            keys[FindByHash(keys, h)].promptCount =
                Cardinality({r \in Requests : reqs[r].key.hash = h /\ Translatable(r)})

\* The calls of incrementPrompt completed for a hash: one by every proxied
\* call that carried a key with the hash and was accepted.
CompletedIncrements(h) ==
    Cardinality({r \in Requests : reqs[r].counted /\ reqs[r].key.hash = h})

\* C19: the pool's mutations are atomic under every interleaving of the
\* proxied calls in flight and the key checker, and no update is lost: each
\* key's promptCount is the number of incrementPrompt calls completed for
\* its hash.
C19_NoLostIncrement ==
    \A i \in Indices : keys[i].promptCount = CompletedIncrements(keys[i].hash)

\* C12: a successful upstream response in a supported encoding whose JSON
\* body lacks the completion field ends with an error response at the
\* client: not with a legacy result, and not without any response.
C12_MalformedReportedToClient ==
    \A r \in Requests :
        ( /\ StageEnded(r)
          /\ SupportedEncoding(reqs[r].contentEncoding)
          /\ reqs[r].upstream.json
          /\ ~HasCompletion(reqs[r].upstream) )
        => (reqs[r].res.sent /\ reqs[r].res.status = 500)

\* C13: for a Content-Encoding other than identity (or none), gzip and
\* deflate the stage ends in an unsupported-encoding error; it neither hands
\* the body to JSON.parse nor sends a translation of it.
C13_UnsupportedEncodingRejected ==
    \A r \in Requests :
        (StageEnded(r) /\ ~SupportedEncoding(reqs[r].contentEncoding))
        => ( /\ reqs[r].rejection = "UnsupportedEncoding"
             /\ reqs[r].parsed = {}
             /\ ~(reqs[r].res.sent /\ reqs[r].res.status = 200) )

====
